---------------------------- MODULE Spec2Model ----------------------------
(***************************************************************************)
(* The local persistence and audit-trail module of the to-do application:  *)
(* TaskService, CategoryService and TaskHistoryService over localStorage.  *)
(*                                                                         *)
(* Representation.                                                         *)
(*   - An id "task-N", "cat-N" or "history-N" is the number N; the prefix  *)
(*     is fixed by the collection the record lives in.                     *)
(*   - A stored counter item is <<>> when the key is absent, <<n>> when   *)
(*     it holds the decimal string of n, and <<NaN>> when it holds a       *)
(*     string parseInt makes nothing of ("NaN" among them).  An id built   *)
(*     from NaN ("task-NaN") is the number NaN.                            *)
(*   - A stored collection is the sequence JSON.parse yields; an absent    *)
(*     key and "[]" both load as <<>>.                                     *)
(*   - A JavaScript object is a record; an optional member that is         *)
(*     undefined is absent from the record's domain, which is what         *)
(*     JSON.stringify leaves of it.  Object spread is Spread.              *)
(*   - A string that is compared up to letter case (a category name) is a  *)
(*     sequence of one-character strings.                                  *)
(*   - Time is the integer `now`; new Date() reads it, Tick advances it.   *)
(***************************************************************************)
EXTENDS Integers, Sequences, FiniteSets, TLC

VARIABLES
    tasks,          \* localStorage['todoapp_tasks']
    taskCounter,    \* localStorage['todoapp_tasks_counter']
    categories,     \* localStorage['todoapp_categories']
    catCounter,     \* localStorage['todoapp_categories_counter']
    history,        \* localStorage['todoapp_history']
    histCounter,    \* localStorage['todoapp_history_counter']
    now,            \* the clock read by new Date()
    catService,     \* TRUE once CategoryService has been constructed
    call,           \* the call made by the last step and its outcome
    created,        \* history variable: ids of the tasks createTask persisted, in order
    deleted,        \* history variable: ids deleteTask removed
    log,            \* history variable: every entry addHistoryEntry persisted, oldest first
    heldCatIds,     \* history variable: every category id the collection has held
    tabs            \* per browser tab: the createTask in flight there, storage call by storage call

storage == <<tasks, taskCounter, categories, catCounter, history, histCounter>>
vars == <<tasks, taskCounter, categories, catCounter, history, histCounter,
          now, catService, call, created, deleted, log, heldCatIds, tabs>>

---------------------------------------------------------------------------
(* Bounds of the model. *)

MaxTaskId == 2      \* createTask is explored while the task counter is <= MaxTaskId
MaxHistId == 3      \* logging operations are explored while the history counter is <= MaxHistId
MaxCatId == 4       \* createCategory is explored while the category counter is <= MaxCatId
MaxTime == 1        \* the clock runs over 0..MaxTime

---------------------------------------------------------------------------
(* Program constants. *)

MAX_HISTORY == 1000
TASK_COUNTER_START == 1
HISTORY_COUNTER_START == 1
CATEGORY_COUNTER_START == 1
SEEDED_COUNTER == 4

PENDING == "pending"
IN_PROGRESS == "in_progress"
COMPLETED == "completed"
CANCELLED == "cancelled"

CREATED == "created"
UPDATED == "updated"
DELETED == "deleted"
STARTED == "started"

---------------------------------------------------------------------------
(* JavaScript helpers. *)

\* {...a, ...b}
Spread(a, b) ==
    [k \in DOMAIN a \cup DOMAIN b |-> IF k \in DOMAIN b THEN b[k] ELSE a[k]]

\* a search that answers the last index when nothing matches
findIndex_OrLast(arr, id) ==
    IF \E i \in 1..Len(arr) : arr[i].id = id
    THEN CHOOSE i \in 1..Len(arr) : arr[i].id = id
    ELSE Len(arr)

\* Array.prototype.findIndex on the id member; 0 stands for JavaScript's -1
findIndex(arr, id) ==
    IF \E i \in 1..Len(arr) : arr[i].id = id
    THEN CHOOSE i \in 1..Len(arr) :
            /\ arr[i].id = id
            /\ \A j \in 1..(i - 1) : arr[j].id # id
    ELSE 0

\* a splice that removes the last element whatever the index (arr.pop())
spliceOne_Last(arr, index) == SubSeq(arr, 1, Len(arr) - 1)

\* a removal that is never saved: the array stays as it was
spliceOne_None(arr, index) == arr

\* arr.splice(index, 1)
spliceOne(arr, index) ==
    [i \in 1..(Len(arr) - 1) |-> IF i < index THEN arr[i] ELSE arr[i + 1]]

\* arr[index] = value
setAt(arr, index, value) == [arr EXCEPT ![index] = value]

\* arr.filter(x => x[member] === value), for a member every element has
filterBy(arr, member, value) ==
    SelectSeq(arr, LAMBDA x : x[member] = value)

\* what parseInt answers for a string that does not start with a number
NaN == 0 - 1

\* a + b on JavaScript numbers
Plus(a, b) == IF a = NaN \/ b = NaN THEN NaN ELSE a + b

\* the empty string '' where an id is expected; no id has this number
EMPTY_STRING == 0

\* if (x) on a string: '' is falsy, every other string is truthy
Truthy(x) == x # EMPTY_STRING

NoCall == [op |-> "none"]

\* the browser tabs that share the storage, and a tab with no call in flight
Tabs == {"A", "B"}
Idle == [pc |-> "idle"]

---------------------------------------------------------------------------
(* TaskHistoryService *)

\* getCounter: counter ? parseInt(counter, 10) : 1; item[1] is what parseInt
\* answers for the stored string
Hist_getCounter(item) ==
    IF item # <<>> THEN item[1] ELSE HISTORY_COUNTER_START

\* setCounter: the item written for value
Hist_setCounter(value) == <<value>>

\* a generateId that does not persist the incremented counter
Hist_generateId_NoIncrement(item) ==
    [id |-> Hist_getCounter(item), counter |-> item]

\* generateId: the id returned and the counter item left in storage
Hist_generateId(item) ==
    [id |-> Hist_getCounter(item),
     counter |-> Hist_setCounter(Plus(Hist_getCounter(item), 1))]

\* history.push(entry) in place of history.unshift(entry)
unshiftCapped_Push(hist, entry) ==
    LET h == hist \o <<entry>>
    IN  IF Len(h) > MAX_HISTORY THEN SubSeq(h, 1, MAX_HISTORY) ELSE h

\* the cap forgotten
unshiftCapped_NoCap(hist, entry) == <<entry>> \o hist

\* history.unshift(entry); if (history.length > 1000) history.splice(1000)
unshiftCapped(hist, entry) ==
    LET h == <<entry>> \o hist
    IN  IF Len(h) > MAX_HISTORY THEN SubSeq(h, 1, MAX_HISTORY) ELSE h

\* addHistoryEntry(taskId, action, oldValues, newValues) at time t.  `values`
\* holds those of oldValues and newValues that are not undefined.  `fail`
\* names the storage write that throws: "none", "counter" (the setItem of
\* generateId) or "history" (the setItem of saveHistory).  The result is
\* the storage the call leaves and whether it threw.
addHistoryEntry(hist, counterItem, taskId, action, values, t, fail) ==
    LET gen == Hist_generateId(counterItem)
        entry == Spread([id |-> gen.id, taskId |-> taskId, action |-> action,
                         timestamp |-> t], values)
    IN  CASE fail = "counter" ->
                [history |-> hist, counter |-> counterItem, threw |-> TRUE,
                 appended |-> <<>>]
          [] fail = "history" ->
                [history |-> hist, counter |-> gen.counter, threw |-> TRUE,
                 appended |-> <<>>]
          [] OTHER ->
                [history |-> unshiftCapped(hist, entry), counter |-> gen.counter,
                 threw |-> FALSE, appended |-> <<entry>>]

\* getTaskHistory(taskId)
getTaskHistory(hist, taskId) == filterBy(hist, "taskId", taskId)

\* getHistory(filter).  A filter is a record of the members that are not
\* undefined; no filter at all and {} select alike.  An action is a member
\* of the HistoryAction enum and a date is a Date object, truthy both.
getHistory(hist, filter) ==
    LET byTask == IF "taskId" \in DOMAIN filter /\ Truthy(filter.taskId)
                  THEN filterBy(hist, "taskId", filter.taskId)
                  ELSE hist
        byAction == IF "action" \in DOMAIN filter
                    THEN filterBy(byTask, "action", filter.action)
                    ELSE byTask
        from == IF "dateFrom" \in DOMAIN filter
                THEN SelectSeq(byAction, LAMBDA h : h.timestamp >= filter.dateFrom)
                ELSE byAction
    IN  IF "dateTo" \in DOMAIN filter
        THEN SelectSeq(from, LAMBDA h : h.timestamp <= filter.dateTo)
        ELSE from

\* getRecentHistory(limit): history.slice(0, limit), limit >= 0
getRecentHistory(hist, limit) ==
    SubSeq(hist, 1, IF Len(hist) < limit THEN Len(hist) ELSE limit)

---------------------------------------------------------------------------
(* TaskService *)

Task_getCounter(item) ==
    IF item # <<>> THEN item[1] ELSE TASK_COUNTER_START

Task_setCounter(value) == <<value>>

\* a generateId that does not persist the incremented counter
Task_generateId_NoIncrement(item) ==
    [id |-> Task_getCounter(item), counter |-> item]

Task_generateId(item) ==
    [id |-> Task_getCounter(item),
     counter |-> Task_setCounter(Plus(Task_getCounter(item), 1))]

\* an addToHistory that records nothing
addToHistory_Skip(hist, counterItem, taskId, action, values, t, fail) ==
    [history |-> hist, counter |-> counterItem, threw |-> FALSE, appended |-> <<>>]

\* an addToHistory that, on DELETED, first drops the task's earlier entries
addToHistory_Purge(hist, counterItem, taskId, action, values, t, fail) ==
    addHistoryEntry(IF action = DELETED
                    THEN SelectSeq(hist, LAMBDA h : h.taskId # taskId)
                    ELSE hist,
                    counterItem, taskId, action, values, t, fail)

\* addToHistory: the call is passed through, and so is what it throws
addToHistory(hist, counterItem, taskId, action, values, t, fail) ==
    addHistoryEntry(hist, counterItem, taskId, action, values, t, fail)

\* getTaskById: the outcome of the returned Observable
getTaskById(ts, id) ==
    LET index == findIndex(ts, id)
    IN  IF index # 0 THEN [result |-> "ok", value |-> ts[index]]
        ELSE [result |-> "NotFound", id |-> id]

\* the record createTask builds from its dto
newTaskOf(id, dto, t) ==
    Spread(Spread([id |-> id], dto),
           [status |-> IF "status" \in DOMAIN dto THEN dto.status ELSE PENDING,
            createdAt |-> t, updatedAt |-> t])

\* an update that writes the dto in place of the merge of the task and the dto
updatedTaskOf_DropsOld(old, dto, id, t) ==
    Spread(dto, [id |-> id, updatedAt |-> t])

\* an update that stamps createdAt in place of updatedAt
updatedTaskOf_StampCreated(old, dto, id, t) ==
    Spread(Spread(old, dto), [id |-> id, createdAt |-> t])

\* an update that leaves updatedAt as it was
updatedTaskOf_KeepStamp(old, dto, id, t) ==
    Spread(Spread(old, dto), [id |-> id])

\* an update that stamps completedAt whenever the new status is completed
updatedTaskOf_StampCompleted(old, dto, id, t) ==
    LET merged == Spread(Spread(old, dto), [id |-> id, updatedAt |-> t])
    IN  IF merged.status = COMPLETED THEN Spread(merged, [completedAt |-> t]) ELSE merged

\* the record updateTask builds
updatedTaskOf(old, dto, id, t) ==
    Spread(Spread(old, dto), [id |-> id, updatedAt |-> t])

\* a classification that does not ask whether the status changed before
\* answering STARTED
updateAction_StartedUnchanged(oldTask, updatedTask) ==
    IF oldTask.status # updatedTask.status /\ updatedTask.status = COMPLETED THEN COMPLETED
    ELSE IF updatedTask.status = IN_PROGRESS THEN STARTED
    ELSE UPDATED

\* the history action updateTask records
updateAction(oldTask, updatedTask) ==
    IF oldTask.status # updatedTask.status
    THEN IF updatedTask.status = COMPLETED THEN COMPLETED
         ELSE IF updatedTask.status = IN_PROGRESS THEN STARTED
         ELSE UPDATED
    ELSE UPDATED

\* a completion that forgets completedAt
completedTaskOf_NoStamp(old, t) ==
    Spread(old, [status |-> COMPLETED, updatedAt |-> t])

\* the record completeTask builds
completedTaskOf(old, t) ==
    Spread(old, [status |-> COMPLETED, completedAt |-> t, updatedAt |-> t])

\* what the caller of a mutation sees: the returned Observable's value, or the
\* exception of the storage write `fail`, which nothing on the way catches
Outcome(h, okCall, fail) ==
    IF h.threw
    THEN [op |-> okCall.op, id |-> okCall.id, result |-> "Throw", fault |-> fail]
    ELSE okCall

createTask(dto, fail) ==
    /\ UNCHANGED <<heldCatIds, tabs>>
    /\ LET gen == Task_generateId(taskCounter)
           newTask == newTaskOf(gen.id, dto, now)
           h == addToHistory(history, histCounter, newTask.id, CREATED,
                             [newValues |-> newTask], now, fail)
       IN  /\ taskCounter' = gen.counter
           /\ tasks' = Append(tasks, newTask)
           /\ history' = h.history
           /\ histCounter' = h.counter
           /\ log' = log \o h.appended
           /\ created' = Append(created, newTask.id)
           /\ call' = Outcome(h, [op |-> "createTask", id |-> newTask.id,
                                  result |-> "ok", value |-> newTask], fail)
    /\ UNCHANGED <<categories, catCounter, now, catService, deleted>>

updateTask(id, dto, fail) ==
    /\ UNCHANGED <<heldCatIds, tabs>>
    /\ LET index == findIndex(tasks, id)
       IN  IF index = 0
           THEN /\ call' = [op |-> "updateTask", id |-> id, result |-> "NotFound"]
                /\ UNCHANGED <<tasks, history, histCounter, log>>
           ELSE LET oldTask == tasks[index]
                    updatedTask == updatedTaskOf(tasks[index], dto, id, now)
                    h == addToHistory(history, histCounter, id,
                                      updateAction(oldTask, updatedTask),
                                      [oldValues |-> oldTask, newValues |-> updatedTask],
                                      now, fail)
                IN  /\ tasks' = setAt(tasks, index, updatedTask)
                    /\ history' = h.history
                    /\ histCounter' = h.counter
                    /\ log' = log \o h.appended
                    /\ call' = Outcome(h, [op |-> "updateTask", id |-> id, dto |-> dto,
                                           result |-> "ok", value |-> updatedTask], fail)
    /\ UNCHANGED <<taskCounter, categories, catCounter, now, catService, created, deleted>>

deleteTask(id, fail) ==
    /\ UNCHANGED <<heldCatIds, tabs>>
    /\ LET index == findIndex(tasks, id)
       IN  IF index = 0
           THEN /\ call' = [op |-> "deleteTask", id |-> id, result |-> "NotFound"]
                /\ UNCHANGED <<tasks, history, histCounter, log, deleted>>
           ELSE LET deletedTask == tasks[index]
                    h == addToHistory(history, histCounter, id, DELETED,
                                      [oldValues |-> deletedTask], now, fail)
                IN  /\ tasks' = spliceOne(tasks, index)
                    /\ history' = h.history
                    /\ histCounter' = h.counter
                    /\ log' = log \o h.appended
                    /\ deleted' = deleted \cup {id}
                    /\ call' = Outcome(h, [op |-> "deleteTask", id |-> id,
                                           result |-> "ok"], fail)
    /\ UNCHANGED <<taskCounter, categories, catCounter, now, catService, created>>

completeTask(id, fail) ==
    /\ UNCHANGED <<heldCatIds, tabs>>
    /\ LET index == findIndex(tasks, id)
       IN  IF index = 0
           THEN /\ call' = [op |-> "completeTask", id |-> id, result |-> "NotFound"]
                /\ UNCHANGED <<tasks, history, histCounter, log>>
           ELSE LET oldTask == tasks[index]
                    newTask == completedTaskOf(tasks[index], now)
                    h == addToHistory(history, histCounter, id, COMPLETED,
                                      [oldValues |-> oldTask, newValues |-> newTask],
                                      now, fail)
                IN  /\ tasks' = setAt(tasks, index, newTask)
                    /\ history' = h.history
                    /\ histCounter' = h.counter
                    /\ log' = log \o h.appended
                    /\ call' = Outcome(h, [op |-> "completeTask", id |-> id,
                                           result |-> "ok", value |-> newTask], fail)
    /\ UNCHANGED <<taskCounter, categories, catCounter, now, catService, created, deleted>>

\* getTaskById as a call: a read of storage
getTaskByIdCall(id) ==
    /\ UNCHANGED <<heldCatIds, tabs>>
    /\ call' = Spread([op |-> "getTaskById", id |-> id], getTaskById(tasks, id))
    /\ UNCHANGED <<tasks, taskCounter, categories, catCounter, history, histCounter,
                   now, catService, created, deleted, log>>

\* getTaskHistory as a call: a read of storage
getTaskHistoryCall(taskId) ==
    /\ UNCHANGED <<heldCatIds, tabs>>
    /\ call' = [op |-> "getTaskHistory", id |-> taskId, result |-> "ok",
                value |-> getTaskHistory(history, taskId)]
    /\ UNCHANGED <<tasks, taskCounter, categories, catCounter, history, histCounter,
                   now, catService, created, deleted, log>>

\* getHistory as a call: a read of storage
getHistoryCall(filter) ==
    /\ UNCHANGED <<heldCatIds, tabs>>
    /\ call' = [op |-> "getHistory", filter |-> filter, result |-> "ok",
                value |-> getHistory(history, filter)]
    /\ UNCHANGED <<tasks, taskCounter, categories, catCounter, history, histCounter,
                   now, catService, created, deleted, log>>

---------------------------------------------------------------------------
(* The clock. *)

Tick ==
    /\ UNCHANGED <<heldCatIds, tabs>>
    /\ now < MaxTime
    /\ now' = now + 1
    /\ call' = NoCall
    /\ UNCHANGED <<tasks, taskCounter, categories, catCounter, history, histCounter,
                   catService, created, deleted, log>>

---------------------------------------------------------------------------
(* String.prototype.toLowerCase over ASCII letters. *)

UpperLetters ==
    <<"A", "B", "C", "D", "E", "F", "G", "H", "I", "J", "K", "L", "M",
      "N", "O", "P", "Q", "R", "S", "T", "U", "V", "W", "X", "Y", "Z">>

LowerLetters ==
    <<"a", "b", "c", "d", "e", "f", "g", "h", "i", "j", "k", "l", "m",
      "n", "o", "p", "q", "r", "s", "t", "u", "v", "w", "x", "y", "z">>

toLowerCaseChar(c) ==
    IF \E i \in 1..Len(UpperLetters) : UpperLetters[i] = c
    THEN LowerLetters[CHOOSE i \in 1..Len(UpperLetters) : UpperLetters[i] = c]
    ELSE c

toLowerCase(str) == [i \in 1..Len(str) |-> toLowerCaseChar(str[i])]

\* String.prototype.includes
includes(str, sub) ==
    \E i \in 0..(Len(str) - Len(sub)) : SubSeq(str, i + 1, i + Len(sub)) = sub

---------------------------------------------------------------------------
(* TaskService: the reads of the collection.  searchTasks takes titles,   *)
(* descriptions and tags that are sequences of one-character strings.     *)

\* getTasks
getTasks(ts) == ts

\* getTasksByCategory(categoryId)
getTasksByCategory(ts, categoryId) == filterBy(ts, "categoryId", categoryId)

\* getTasksByStatus(status)
getTasksByStatus(ts, status) == filterBy(ts, "status", status)

\* searchTasks(query); description and tags are optional members
searchTasks(ts, query) ==
    LET lowerQuery == toLowerCase(query)
    IN  SelectSeq(ts, LAMBDA task :
            \/ includes(toLowerCase(task.title), lowerQuery)
            \/ /\ "description" \in DOMAIN task
               /\ includes(toLowerCase(task.description), lowerQuery)
            \/ /\ "tags" \in DOMAIN task
               /\ \E i \in 1..Len(task.tags) :
                     includes(toLowerCase(task.tags[i]), lowerQuery))

\* a read of storage as a call: nothing is written
Read(record) ==
    /\ call' = Spread(record, [result |-> "ok"])
    /\ UNCHANGED <<tasks, taskCounter, categories, catCounter, history, histCounter,
                   now, catService, created, deleted, log, heldCatIds, tabs>>

getTasksCall == Read([op |-> "getTasks", value |-> getTasks(tasks)])

getTasksByCategoryCall(categoryId) ==
    Read([op |-> "getTasksByCategory", categoryId |-> categoryId,
          value |-> getTasksByCategory(tasks, categoryId)])

getTasksByStatusCall(status) ==
    Read([op |-> "getTasksByStatus", status |-> status,
          value |-> getTasksByStatus(tasks, status)])

searchTasksCall(query) ==
    Read([op |-> "searchTasks", query |-> query, value |-> searchTasks(tasks, query)])

getRecentHistoryCall(limit) ==
    Read([op |-> "getRecentHistory", limit |-> limit,
          value |-> getRecentHistory(history, limit)])

---------------------------------------------------------------------------
(* CategoryService *)

Cat_getCounter(item) ==
    IF item # <<>> THEN item[1] ELSE CATEGORY_COUNTER_START

Cat_setCounter(value) == <<value>>

Cat_generateId(item) ==
    [id |-> Cat_getCounter(item),
     counter |-> Cat_setCounter(Plus(Cat_getCounter(item), 1))]

\* the three categories initializeDefaultCategories writes at time t
defaults(t) ==
    << [id |-> 1, name |-> <<"P", "e", "r", "s", "o", "n", "a", "l">>,
        color |-> "#4caf50", icon |-> "U+1F464", taskCount |-> 0, createdAt |-> t],
       [id |-> 2, name |-> <<"T", "r", "a", "b", "a", "j", "o">>,
        color |-> "#2196f3", icon |-> "U+1F4BC", taskCount |-> 0, createdAt |-> t],
       [id |-> 3, name |-> <<"U", "r", "g", "e", "n", "t", "e">>,
        color |-> "#f44336", icon |-> "U+26A1", taskCount |-> 0, createdAt |-> t] >>

\* initializeDefaultCategories: the collection and the counter item it leaves
initializeDefaultCategories(cats, counterItem, t) ==
    IF Len(cats) = 0
    THEN [categories |-> defaults(t), counter |-> Cat_setCounter(SEEDED_COUNTER)]
    ELSE [categories |-> cats, counter |-> counterItem]

\* a count that forgets the filter: tasks.length
countTasks_All(ts, id) == Len(ts)

\* tasks.filter(t => t.categoryId === id).length
countTasks(ts, id) == Len(filterBy(ts, "categoryId", id))

\* a recount that writes { id, taskCount } in place of { ...category, taskCount }
updateTaskCounts_CountOnly(cats, ts) ==
    [i \in 1..Len(cats) |-> [id |-> cats[i].id, taskCount |-> countTasks(ts, cats[i].id)]]

\* updateTaskCounts: the collection it saves
updateTaskCounts(cats, ts) ==
    [i \in 1..Len(cats) |-> Spread(cats[i], [taskCount |-> countTasks(ts, cats[i].id)])]

\* a name check that compares case-sensitively
nameTaken_CaseSensitive(cats, name) ==
    \E i \in 1..Len(cats) : cats[i].name = name

\* categories.some(c => c.name.toLowerCase() === name.toLowerCase())
nameTaken(cats, name) ==
    \E i \in 1..Len(cats) : toLowerCase(cats[i].name) = toLowerCase(name)

\* the duplicate updateCategory looks for: if (category.name) categories.find(
\*   c => c.id !== id && c.name.toLowerCase() === category.name.toLowerCase())
duplicateOf(cats, id, dto) ==
    /\ "name" \in DOMAIN dto
    /\ dto.name # <<>>
    /\ \E i \in 1..Len(cats) :
          /\ cats[i].id # id
          /\ toLowerCase(cats[i].name) = toLowerCase(dto.name)

\* the referential check left out
hasTask_Never(ts, id) == FALSE

\* tasks.some(t => t.categoryId === id)
hasTask(ts, id) == \E i \in 1..Len(ts) : ts[i].categoryId = id

\* the record createCategory builds
newCategoryOf(id, dto, t) ==
    Spread(Spread([id |-> id], dto), [taskCount |-> 0, createdAt |-> t])

\* getCategoryById: the outcome of the returned Observable
getCategoryById(cats, id) ==
    LET index == findIndex(cats, id)
    IN  IF index # 0 THEN [result |-> "ok", value |-> cats[index]]
        ELSE [result |-> "NotFound", id |-> id]

\* new CategoryService(): the constructor, run at startup and on every reload
CategoryServiceNew ==
    /\ LET init == initializeDefaultCategories(categories, catCounter, now)
       IN  /\ categories' = init.categories
           /\ catCounter' = init.counter
           /\ heldCatIds' = heldCatIds \cup { init.categories[i].id : i \in 1..Len(init.categories) }
    /\ catService' = TRUE
    /\ UNCHANGED tabs
    /\ call' = [op |-> "constructor", seeded |-> (Len(categories) = 0)]
    /\ UNCHANGED <<tasks, taskCounter, history, histCounter, now, created, deleted, log>>

getCategories ==
    /\ UNCHANGED <<heldCatIds, tabs>>
    /\ catService
    /\ categories' = updateTaskCounts(categories, tasks)
    /\ call' = [op |-> "getCategories", result |-> "ok",
                value |-> updateTaskCounts(categories, tasks)]
    /\ UNCHANGED <<tasks, taskCounter, catCounter, history, histCounter, now,
                   catService, created, deleted, log>>

getCategoryByIdCall(id) ==
    /\ UNCHANGED <<heldCatIds, tabs>>
    /\ catService
    /\ call' = Spread([op |-> "getCategoryById", id |-> id], getCategoryById(categories, id))
    /\ UNCHANGED <<tasks, taskCounter, categories, catCounter, history, histCounter,
                   now, catService, created, deleted, log>>

createCategory(dto) ==
    /\ catService
    /\ IF nameTaken(categories, dto.name)
       THEN /\ call' = [op |-> "createCategory", name |-> dto.name, result |-> "Conflict"]
            /\ UNCHANGED <<categories, catCounter, heldCatIds>>
       ELSE LET gen == Cat_generateId(catCounter)
                newCategory == newCategoryOf(gen.id, dto, now)
            IN  /\ catCounter' = gen.counter
                /\ categories' = Append(categories, newCategory)
                /\ heldCatIds' = heldCatIds \cup {newCategory.id}
                /\ call' = [op |-> "createCategory", name |-> dto.name,
                            result |-> "ok", value |-> newCategory]
    /\ UNCHANGED <<tasks, taskCounter, history, histCounter, now, catService,
                   created, deleted, log, tabs>>

updateCategory(id, dto) ==
    /\ UNCHANGED <<heldCatIds, tabs>>
    /\ catService
    /\ LET index == findIndex(categories, id)
       IN  IF index = 0
           THEN /\ call' = [op |-> "updateCategory", id |-> id, result |-> "NotFound"]
                /\ UNCHANGED categories
           ELSE IF duplicateOf(categories, id, dto)
           THEN /\ call' = [op |-> "updateCategory", id |-> id, dto |-> dto,
                            result |-> "Conflict"]
                /\ UNCHANGED categories
           ELSE LET updated == Spread(Spread(categories[index], dto), [id |-> id])
                IN  /\ categories' = setAt(categories, index, updated)
                    /\ call' = [op |-> "updateCategory", id |-> id, dto |-> dto,
                                result |-> "ok", value |-> updated]
    /\ UNCHANGED <<tasks, taskCounter, catCounter, history, histCounter, now,
                   catService, created, deleted, log>>

deleteCategory(id) ==
    /\ UNCHANGED <<heldCatIds, tabs>>
    /\ catService
    /\ LET index == findIndex(categories, id)
       IN  IF index = 0
           THEN /\ call' = [op |-> "deleteCategory", id |-> id, result |-> "NotFound"]
                /\ UNCHANGED categories
           ELSE IF hasTask(tasks, id)
           THEN /\ call' = [op |-> "deleteCategory", id |-> id, result |-> "Conflict"]
                /\ UNCHANGED categories
           ELSE /\ categories' = spliceOne(categories, index)
                /\ call' = [op |-> "deleteCategory", id |-> id, result |-> "ok"]
    /\ UNCHANGED <<tasks, taskCounter, catCounter, history, histCounter, now,
                   catService, created, deleted, log>>

---------------------------------------------------------------------------
(* The inputs explored. *)

\* ids 1..MaxTaskId can be issued; MaxTaskId + 1 never is
TaskIds == 1..(MaxTaskId + 1)

CreateTaskDtos ==
    { [title |-> "a", priority |-> "medium", categoryId |-> 1],
      [title |-> "a", priority |-> "medium", categoryId |-> 4, status |-> IN_PROGRESS] }

UpdateTaskDtos ==
    { [status |-> COMPLETED], [status |-> PENDING], [status |-> IN_PROGRESS],
      [title |-> "b"], [categoryId |-> 2] }

\* the room the bounds leave
TaskRoom == Task_getCounter(taskCounter) <= MaxTaskId
HistRoom == Hist_getCounter(histCounter) <= MaxHistId
CatRoom == Cat_getCounter(catCounter) <= MaxCatId

Init ==
    /\ tasks = <<>>
    /\ taskCounter = <<>>
    /\ categories = <<>>
    /\ catCounter = <<>>
    /\ history = <<>>
    /\ histCounter = <<>>
    /\ now = 0
    /\ catService = FALSE
    /\ call = NoCall
    /\ created = <<>>
    /\ deleted = {}
    /\ log = <<>>
    /\ heldCatIds = {}
    /\ tabs = [tab \in Tabs |-> Idle]

---------------------------------------------------------------------------
(* Spec: the Task Store and the History Log in one tab, from empty        *)
(* storage, under a clock that advances, with storage accepting every     *)
(* write.                                                                  *)

Next ==
    \/ Tick
    \/ TaskRoom /\ HistRoom /\ \E dto \in CreateTaskDtos : createTask(dto, "none")
    \/ HistRoom /\ \E id \in TaskIds, dto \in UpdateTaskDtos : updateTask(id, dto, "none")
    \/ HistRoom /\ \E id \in TaskIds : deleteTask(id, "none")
    \/ HistRoom /\ \E id \in TaskIds : completeTask(id, "none")
    \/ \E id \in TaskIds : getTaskByIdCall(id)
    \/ \E id \in TaskIds : getTaskHistoryCall(id)

Spec == Init /\ [][Next]_vars

---------------------------------------------------------------------------
(* SpecStores: the three stores in one tab, from empty storage, at one    *)
(* reading of the clock.  The Category Store is constructed first and on  *)
(* every reload.                                                           *)

StoreTaskIds == {1, MaxTaskId + 1}
StoreCategoryIds == {1, SEEDED_COUNTER, MaxCatId + 1}

StoreCreateTaskDtos == { [title |-> "a", priority |-> "medium", categoryId |-> 1] }
StoreUpdateTaskDtos == { [categoryId |-> 2] }

StoreCreateCategoryDtos ==
    { [name |-> <<"w", "o", "r", "k">>, color |-> "#000000"],
      [name |-> <<"p", "e", "r", "s", "o", "n", "a", "l">>, color |-> "#000000"] }

StoreUpdateCategoryDtos == { [name |-> <<>>] }

NextStores ==
    \/ CategoryServiceNew
    \/ TaskRoom /\ HistRoom /\ \E dto \in StoreCreateTaskDtos : createTask(dto, "none")
    \/ HistRoom /\ \E id \in StoreTaskIds, dto \in StoreUpdateTaskDtos :
                      updateTask(id, dto, "none")
    \/ HistRoom /\ \E id \in StoreTaskIds : deleteTask(id, "none")
    \/ HistRoom /\ \E id \in StoreTaskIds : completeTask(id, "none")
    \/ \E id \in StoreTaskIds : getTaskByIdCall(id)
    \/ getCategories
    \/ \E id \in StoreCategoryIds : getCategoryByIdCall(id)
    \/ CatRoom /\ \E dto \in StoreCreateCategoryDtos : createCategory(dto)
    \/ \E id \in StoreCategoryIds, dto \in StoreUpdateCategoryDtos : updateCategory(id, dto)
    \/ \E id \in StoreCategoryIds : deleteCategory(id)

SpecStores == Init /\ [][NextStores]_vars

---------------------------------------------------------------------------
(* SpecFail: the Task Store and the History Log in one tab, where storage *)
(* may reject (QuotaExceededError) a write of addHistoryEntry.            *)

Faults == {"none", "counter", "history"}

NextFail ==
    \/ TaskRoom /\ HistRoom /\ \E dto \in StoreCreateTaskDtos, fail \in Faults :
                                  createTask(dto, fail)
    \/ HistRoom /\ \E id \in StoreTaskIds, dto \in StoreUpdateTaskDtos, fail \in Faults :
                      updateTask(id, dto, fail)
    \/ HistRoom /\ \E id \in StoreTaskIds, fail \in Faults : deleteTask(id, fail)
    \/ HistRoom /\ \E id \in StoreTaskIds, fail \in Faults : completeTask(id, fail)

SpecFail == Init /\ [][NextFail]_vars

---------------------------------------------------------------------------
(* SpecCap: the Task Store and the History Log in one tab, started in the *)
(* state that createTask followed by n - 1 calls of completeTask on the   *)
(* created task leave, for n = MAX_HISTORY - CapWindow entries, and run   *)
(* until the history counter passes MAX_HISTORY + CapWindow.              *)

CapWindow == 2

capDto == [title |-> "a", priority |-> "medium", categoryId |-> 1]
capPending == newTaskOf(TASK_COUNTER_START, capDto, 0)
capCompleted == completedTaskOf(capPending, 0)

\* the k-th entry those calls append
capEntry(k) ==
    IF k = 1
    THEN [id |-> k, taskId |-> capPending.id, action |-> CREATED, timestamp |-> 0,
          newValues |-> capPending]
    ELSE [id |-> k, taskId |-> capPending.id, action |-> COMPLETED, timestamp |-> 0,
          oldValues |-> IF k = 2 THEN capPending ELSE capCompleted,
          newValues |-> capCompleted]

\* the state after createTask(capDto) and n - 1 calls of completeTask, n >= 2
CapStart(n) ==
    /\ tasks = <<capCompleted>>
    /\ taskCounter = Task_setCounter(capPending.id + 1)
    /\ categories = <<>>
    /\ catCounter = <<>>
    /\ history = [i \in 1..n |-> capEntry(n + 1 - i)]
    /\ histCounter = Hist_setCounter(n + 1)
    /\ now = 0
    /\ catService = FALSE
    /\ call = [op |-> "completeTask", id |-> capPending.id, result |-> "ok",
               value |-> capCompleted]
    /\ created = <<capPending.id>>
    /\ deleted = {}
    /\ log = [i \in 1..n |-> capEntry(i)]
    /\ heldCatIds = {}
    /\ tabs = [tab \in Tabs |-> Idle]

InitCap == CapStart(MAX_HISTORY - CapWindow)

CapRoom == Hist_getCounter(histCounter) <= MAX_HISTORY + CapWindow

NextCap ==
    \/ TaskRoom /\ CapRoom /\ \E dto \in StoreCreateTaskDtos : createTask(dto, "none")
    \/ CapRoom /\ \E id \in StoreTaskIds, dto \in StoreUpdateTaskDtos :
                     updateTask(id, dto, "none")
    \/ CapRoom /\ \E id \in StoreTaskIds : deleteTask(id, "none")
    \/ CapRoom /\ \E id \in StoreTaskIds : completeTask(id, "none")

SpecCap == InitCap /\ [][NextCap]_vars

---------------------------------------------------------------------------
(* SpecReload: the Category Store alone in one tab, from empty storage,   *)
(* where every category can be deleted and the page reloaded (the store   *)
(* constructed again) at any time.                                        *)

ReloadCategoryIds == 1..MaxCatId

NextReload ==
    \/ CategoryServiceNew
    \/ CatRoom /\ \E dto \in StoreCreateCategoryDtos : createCategory(dto)
    \/ \E id \in ReloadCategoryIds : deleteCategory(id)

SpecReload == Init /\ [][NextReload]_vars

---------------------------------------------------------------------------
(* SpecCorrupt: the three stores in one tab, started from storage whose   *)
(* counter items are, each on its own, missing, unreadable as a number or *)
(* intact, beside collections as one earlier session left them: no task,  *)
(* no history, the three seeded categories.                               *)

CorruptCounterItems(start) == { <<>>, <<NaN>>, <<start>> }

CorruptTaskIds == {TASK_COUNTER_START, NaN}

InitCorrupt ==
    /\ tasks = <<>>
    /\ taskCounter \in CorruptCounterItems(TASK_COUNTER_START)
    /\ categories = defaults(0)
    /\ catCounter \in CorruptCounterItems(SEEDED_COUNTER)
    /\ history = <<>>
    /\ histCounter \in CorruptCounterItems(HISTORY_COUNTER_START)
    /\ now = 0
    /\ catService = FALSE
    /\ call = NoCall
    /\ created = <<>>
    /\ deleted = {}
    /\ log = <<>>
    /\ heldCatIds = { defaults(0)[i].id : i \in 1..Len(defaults(0)) }
    /\ tabs = [tab \in Tabs |-> Idle]

\* the room the bounds leave when a counter no longer counts
CorruptTaskRoom == Len(tasks) < MaxTaskId
CorruptHistRoom == Len(history) < MaxHistId
CorruptCatRoom == Len(categories) < MaxCatId

NextCorrupt ==
    \/ CategoryServiceNew
    \/ CorruptTaskRoom /\ CorruptHistRoom /\
          \E dto \in StoreCreateTaskDtos : createTask(dto, "none")
    \/ CorruptHistRoom /\ \E id \in CorruptTaskIds : completeTask(id, "none")
    \/ CorruptCatRoom /\ \E dto \in StoreCreateCategoryDtos : createCategory(dto)

SpecCorrupt == InitCorrupt /\ [][NextCorrupt]_vars

---------------------------------------------------------------------------
(* SpecTabs: createTask called once in each of two tabs over the same     *)
(* storage.  A tab runs its call synchronously, but the other tab is      *)
(* another thread: its storage calls fall anywhere between this tab's.    *)
(* One action is one storage call of createTask, with the computation     *)
(* that follows it up to the next storage call; tabs[tab] holds the tab's *)
(* local variables.                                                       *)

\* tasks.unshift(newTask) in place of tasks.push(newTask)
pushTask_Unshift(loaded, newTask) == <<newTask>> \o loaded

\* tasks.push(newTask), on the array loadTasks returned
pushTask(loaded, newTask) == Append(loaded, newTask)

At(tab, pc) == tabs[tab].pc = pc

Goto(tab, pc, locals) ==
    tabs' = [tabs EXCEPT ![tab] = Spread(Spread(@, locals), [pc |-> pc])]

\* const tasks = this.loadTasks(); const now = new Date()
Tab_loadTasks(tab, dto) ==
    /\ At(tab, "idle")
    /\ Goto(tab, "getCounter", [dto |-> dto, tasks |-> tasks, now |-> now])
    /\ UNCHANGED <<storage, now, catService, call, created, deleted, log, heldCatIds>>

\* generateId: const counter = this.getCounter()
Tab_getCounter(tab) ==
    /\ At(tab, "getCounter")
    /\ Goto(tab, "setCounter", [counter |-> Task_getCounter(taskCounter)])
    /\ UNCHANGED <<storage, now, catService, call, created, deleted, log, heldCatIds>>

\* generateId: this.setCounter(counter + 1); then newTask is built and pushed
Tab_setCounter(tab) ==
    /\ At(tab, "setCounter")
    /\ taskCounter' = Task_setCounter(Plus(tabs[tab].counter, 1))
    /\ Goto(tab, "saveTasks",
            [newTask |-> newTaskOf(tabs[tab].counter, tabs[tab].dto, tabs[tab].now)])
    /\ UNCHANGED <<tasks, categories, catCounter, history, histCounter,
                   now, catService, call, created, deleted, log, heldCatIds>>

\* this.saveTasks(tasks)
Tab_saveTasks(tab) ==
    /\ At(tab, "saveTasks")
    /\ tasks' = pushTask(tabs[tab].tasks, tabs[tab].newTask)
    /\ created' = Append(created, tabs[tab].newTask.id)
    /\ Goto(tab, "loadHistory", << >>)
    /\ UNCHANGED <<taskCounter, categories, catCounter, history, histCounter,
                   now, catService, call, deleted, log, heldCatIds>>

\* addHistoryEntry: const history = this.loadHistory()
Tab_loadHistory(tab) ==
    /\ At(tab, "loadHistory")
    /\ Goto(tab, "histGetCounter", [history |-> history])
    /\ UNCHANGED <<storage, now, catService, call, created, deleted, log, heldCatIds>>

\* TaskHistoryService.generateId: const counter = this.getCounter()
Tab_histGetCounter(tab) ==
    /\ At(tab, "histGetCounter")
    /\ Goto(tab, "histSetCounter", [histCounter |-> Hist_getCounter(histCounter)])
    /\ UNCHANGED <<storage, now, catService, call, created, deleted, log, heldCatIds>>

\* TaskHistoryService.generateId: this.setCounter(counter + 1); then the
\* entry is built, with its own new Date(), and unshifted
Tab_histSetCounter(tab) ==
    /\ At(tab, "histSetCounter")
    /\ histCounter' = Hist_setCounter(Plus(tabs[tab].histCounter, 1))
    /\ Goto(tab, "saveHistory",
            [entry |-> [id |-> tabs[tab].histCounter, taskId |-> tabs[tab].newTask.id,
                        action |-> CREATED, timestamp |-> now,
                        newValues |-> tabs[tab].newTask]])
    /\ UNCHANGED <<tasks, taskCounter, categories, catCounter, history,
                   now, catService, call, created, deleted, log, heldCatIds>>

\* this.saveHistory(history); return of(newTask)
Tab_saveHistory(tab) ==
    /\ At(tab, "saveHistory")
    /\ history' = unshiftCapped(tabs[tab].history, tabs[tab].entry)
    /\ log' = Append(log, tabs[tab].entry)
    /\ Goto(tab, "done", [result |-> "ok", value |-> tabs[tab].newTask])
    /\ call' = [op |-> "createTask", id |-> tabs[tab].newTask.id, result |-> "ok",
                value |-> tabs[tab].newTask, tab |-> tab]
    /\ UNCHANGED <<tasks, taskCounter, categories, catCounter, histCounter,
                   now, catService, created, deleted, heldCatIds>>

\* the dto each tab passes
TabDtos ==
    { [title |-> "a", priority |-> "medium", categoryId |-> 1],
      [title |-> "b", priority |-> "medium", categoryId |-> 1] }

NextTabs ==
    \/ Tick
    \/ \E tab \in Tabs, dto \in TabDtos : Tab_loadTasks(tab, dto)
    \/ \E tab \in Tabs : Tab_getCounter(tab)
    \/ \E tab \in Tabs : Tab_setCounter(tab)
    \/ \E tab \in Tabs : Tab_saveTasks(tab)
    \/ \E tab \in Tabs : Tab_loadHistory(tab)
    \/ \E tab \in Tabs : Tab_histGetCounter(tab)
    \/ \E tab \in Tabs : Tab_histSetCounter(tab)
    \/ \E tab \in Tabs : Tab_saveHistory(tab)

SpecTabs == Init /\ [][NextTabs]_vars

---------------------------------------------------------------------------
(* SpecQuery: the Task Store and the History Log in one tab, from empty   *)
(* storage, under a clock that advances, with the history queried between *)
(* the mutations.                                                         *)

QueryTaskIds == {TASK_COUNTER_START, MaxTaskId, EMPTY_STRING}
QueryActions == {CREATED, COMPLETED}
QueryDates == 0..MaxTime

\* every filter over these values, member by member present or absent
QueryFilters ==
    { Spread(Spread(Spread(t, a), f), d) :
        t \in {<<>>} \cup { [taskId |-> x] : x \in QueryTaskIds },
        a \in {<<>>} \cup { [action |-> x] : x \in QueryActions },
        f \in {<<>>} \cup { [dateFrom |-> x] : x \in QueryDates },
        d \in {<<>>} \cup { [dateTo |-> x] : x \in QueryDates } }

NextQuery ==
    \/ Tick
    \/ TaskRoom /\ HistRoom /\ \E dto \in StoreCreateTaskDtos : createTask(dto, "none")
    \/ HistRoom /\ \E id \in StoreTaskIds : deleteTask(id, "none")
    \/ HistRoom /\ \E id \in StoreTaskIds : completeTask(id, "none")
    \/ \E filter \in QueryFilters : getHistoryCall(filter)
    \/ \E id \in QueryTaskIds : getTaskHistoryCall(id)

SpecQuery == Init /\ [][NextQuery]_vars

---------------------------------------------------------------------------
(* SpecRename: the Category Store alone in one tab, from empty storage,   *)
(* with categories created and renamed.                                   *)

RenameCategoryIds == {CATEGORY_COUNTER_START, CATEGORY_COUNTER_START + 1, SEEDED_COUNTER}

RenameDtos ==
    { [name |-> <<"p", "e", "r", "s", "o", "n", "a", "l">>],
      [name |-> <<"W", "O", "R", "K">>, color |-> "#111111"],
      [name |-> <<>>],
      [color |-> "#111111"] }

NextRename ==
    \/ CategoryServiceNew
    \/ CatRoom /\ \E dto \in StoreCreateCategoryDtos : createCategory(dto)
    \/ \E id \in RenameCategoryIds, dto \in RenameDtos : updateCategory(id, dto)

SpecRename == Init /\ [][NextRename]_vars

---------------------------------------------------------------------------
(* SpecReads: the three stores in one tab, from empty storage, with every *)
(* read operation called between the mutations.                           *)

ReadCreateTaskDtos ==
    { [title |-> <<"A", "b">>, priority |-> "medium", categoryId |-> 1],
      [title |-> <<"c">>, description |-> <<"a", "B", "c">>, tags |-> << <<"b">> >>,
       priority |-> "medium", categoryId |-> 2] }

ReadQueries == { <<"a", "B">>, <<"c">> }
ReadStatuses == {PENDING, COMPLETED}
ReadLimits == {1, MaxHistId}
ReadFilters == { <<>>, [taskId |-> TASK_COUNTER_START], [action |-> COMPLETED] }

NextReads ==
    \/ CategoryServiceNew
    \/ TaskRoom /\ HistRoom /\ \E dto \in ReadCreateTaskDtos : createTask(dto, "none")
    \/ HistRoom /\ \E id \in StoreTaskIds : completeTask(id, "none")
    \/ getTasksCall
    \/ \E id \in StoreTaskIds : getTaskByIdCall(id)
    \/ \E id \in StoreCategoryIds : getTasksByCategoryCall(id)
    \/ \E status \in ReadStatuses : getTasksByStatusCall(status)
    \/ \E query \in ReadQueries : searchTasksCall(query)
    \/ getCategories
    \/ \E id \in StoreCategoryIds : getCategoryByIdCall(id)
    \/ \E filter \in ReadFilters : getHistoryCall(filter)
    \/ \E id \in StoreTaskIds : getTaskHistoryCall(id)
    \/ \E limit \in ReadLimits : getRecentHistoryCall(limit)

SpecReads == Init /\ [][NextReads]_vars

---------------------------------------------------------------------------
(* Claims about the Task Store and the History Log, checked under Spec.   *)

Range(seq) == { seq[i] : i \in 1..Len(seq) }

Reverse(seq) == [i \in 1..Len(seq) |-> seq[Len(seq) + 1 - i]]

TaskMutations == {"createTask", "updateTask", "deleteTask", "completeTask"}

\* the step is a successful call of a Task Store mutation
TaskMutated == call'.op \in TaskMutations /\ call'.result = "ok"

\* C1: in one tab from empty storage, every createTask issues an id that no
\* earlier createTask issued, whether or not the earlier task still exists.
C1_TaskIdsUnique ==
    \A i, j \in 1..Len(created) : i # j => created[i] # created[j]

\* a createTask has just issued a second id after the first task was deleted
C1_Witness ==
    /\ call.op = "createTask"
    /\ call.result = "ok"
    /\ Len(created) = 2
    /\ created[1] \in deleted

\* C2: every successful createTask, updateTask, deleteTask and completeTask
\* puts exactly one new entry at the front of the history, with the taskId of
\* the task concerned (Created with newValues = the created task and no
\* oldValues for createTask; Deleted with oldValues = the removed task and no
\* newValues for deleteTask); every other step leaves the history as it was.
C2_OneEntryPerMutation ==
    [][ IF TaskMutated
        THEN /\ Len(history') = Len(history) + 1
             /\ Tail(history') = history
             /\ log' = Append(log, history'[1])
             /\ history'[1].taskId = call'.id
             /\ call'.op = "createTask" =>
                  /\ history'[1].action = CREATED
                  /\ history'[1].newValues = call'.value
                  /\ call'.value.id = call'.id
                  /\ "oldValues" \notin DOMAIN history'[1]
             /\ call'.op = "deleteTask" =>
                  /\ history'[1].action = DELETED
                  /\ history'[1].oldValues \in Range(tasks)
                  /\ history'[1].oldValues \notin Range(tasks')
                  /\ history'[1].oldValues.id = call'.id
                  /\ "newValues" \notin DOMAIN history'[1]
        ELSE history' = history /\ log' = log ]_vars

\* a deleteTask has just logged its entry
C2_Witness ==
    /\ call.op = "deleteTask"
    /\ call.result = "ok"
    /\ Len(history) >= 2
    /\ history[1].action = DELETED

C9_DeletedStaysNotFound ==
    \A id \in deleted : getTaskById(tasks, id).result = "NotFound"

\* getTaskById has just been asked for an id that was deleted before the
\* latest createTask
C9_Witness ==
    /\ call.op = "getTaskById"
    /\ call.id \in deleted
    /\ call.result = "NotFound"
    /\ Len(history) >= 3
    /\ history[1].action = CREATED
    /\ history[2].action = DELETED
    /\ history[2].taskId = call.id


\* the collection holds a record with this id
Holds(coll, id) == \E i \in 1..Len(coll) : coll[i].id = id

\* the task with this id in a collection that holds it
TaskOf(coll, id) == coll[findIndex(coll, id)]

\* C11: completeTask(id) on an existing task returns and persists the task
\* with status Completed and completedAt equal to the time of the call, and
\* appends a Completed history entry for it, whatever the status was before
\* (Completed included); no member of the task other than status,
\* completedAt and updatedAt changes, and no other task changes.
C11_CompleteTask ==
    [][(call'.op = "completeTask" /\ Holds(tasks, call'.id)) =>
          LET old == TaskOf(tasks, call'.id)
              index == findIndex(tasks, call'.id)
          IN  /\ call'.result = "ok"
              /\ DOMAIN call'.value = DOMAIN old \cup {"completedAt"}
              /\ call'.value.status = COMPLETED
              /\ call'.value.completedAt = now
              /\ \A k \in DOMAIN old \ {"status", "completedAt", "updatedAt"} :
                    call'.value[k] = old[k]
              /\ tasks' = setAt(tasks, index, call'.value)
              /\ Len(history') = Len(history) + 1
              /\ history'[1].action = COMPLETED
              /\ history'[1].taskId = call'.id
              /\ history'[1].newValues = call'.value]_vars

\* completeTask has just completed, at a later time, a task that was Completed
C11_Witness ==
    /\ call.op = "completeTask"
    /\ call.result = "ok"
    /\ Len(history) > 0
    /\ history[1].action = COMPLETED
    /\ history[1].oldValues.status = COMPLETED
    /\ "completedAt" \in DOMAIN history[1].oldValues
    /\ history[1].oldValues.completedAt < call.value.completedAt
    /\ Holds(tasks, call.id)
    /\ TaskOf(tasks, call.id) = call.value

\* C12: createTask returns and persists a task whose createdAt and
\* updatedAt are equal, and every persisted task has updatedAt >= createdAt
\* (the clock never goes backwards).
C12_UpdatedNotBeforeCreated ==
    /\ \A i \in 1..Len(tasks) : tasks[i].updatedAt >= tasks[i].createdAt
    /\ (call.op = "createTask" /\ call.result = "ok") =>
          /\ call.value.createdAt = call.value.updatedAt
          /\ call.value.createdAt = now
          /\ tasks[Len(tasks)] = call.value

\* one task was created and not touched since, another was changed at a later time
C12_Witness ==
    /\ \E i \in 1..Len(tasks) : tasks[i].updatedAt > tasks[i].createdAt
    /\ \E i \in 1..Len(tasks) : tasks[i].updatedAt = tasks[i].createdAt
    /\ call.op = "createTask"
    /\ call.result = "ok"

\* updateTask has just succeeded on the task it names
UpdateTaskDone == call'.op = "updateTask" /\ call'.result = "ok"

\* C13 as stated: every successful updateTask strictly increases the task's
\* updatedAt; leaving it equal is not allowed.
C13_UpdatedAtStrictlyIncreases ==
    [][UpdateTaskDone =>
          call'.value.updatedAt > TaskOf(tasks, call'.id).updatedAt]_vars

\* C13, amended: every successful updateTask sets the task's updatedAt to
\* the reading of the clock at the call, which is never before the previous
\* updatedAt and equals it when the clock has not advanced since.
C13_UpdatedAtRefreshed ==
    [][UpdateTaskDone =>
          /\ call'.value.updatedAt = now
          /\ call'.value.updatedAt >= TaskOf(tasks, call'.id).updatedAt
          /\ TaskOf(tasks', call'.id) = call'.value]_vars

\* updateTask has just succeeded and the task's updatedAt is what it was
C13_Witness ==
    /\ call.op = "updateTask"
    /\ call.result = "ok"
    /\ Len(history) > 0
    /\ history[1].newValues = call.value
    /\ history[1].oldValues.updatedAt = call.value.updatedAt

\* the entry updateTask has just put at the head of the history carries the
\* task as it was before the call and as it is after it
UpdateSnapshotsLogged ==
    /\ Len(history') = Len(history) + 1
    /\ history'[1].taskId = call'.id
    /\ history'[1].oldValues = TaskOf(tasks, call'.id)
    /\ history'[1].newValues = call'.value
    /\ history'[1].newValues = TaskOf(tasks', call'.id)

\* C16 as stated: updateTask records Completed when the status changed and
\* the new status is Completed, otherwise Started when the new status is
\* InProgress, otherwise Updated; the entry carries the old and the new
\* snapshot.
C16_ActionAsStated ==
    [][UpdateTaskDone =>
          /\ UpdateSnapshotsLogged
          /\ history'[1].action =
                IF /\ TaskOf(tasks, call'.id).status # call'.value.status
                   /\ call'.value.status = COMPLETED
                THEN COMPLETED
                ELSE IF call'.value.status = IN_PROGRESS THEN STARTED
                ELSE UPDATED]_vars

\* C16, amended: updateTask records Completed when the status changed and
\* the new status is Completed, Started when the status changed and the new
\* status is InProgress, and Updated in every other case (a task that stays
\* InProgress included); the entry carries the full old snapshot as
\* oldValues and the full new snapshot as newValues.
C16_ActionClassified ==
    [][UpdateTaskDone =>
          LET changed == TaskOf(tasks, call'.id).status # call'.value.status
          IN  /\ UpdateSnapshotsLogged
              /\ history'[1].action =
                    IF changed /\ call'.value.status = COMPLETED THEN COMPLETED
                    ELSE IF changed /\ call'.value.status = IN_PROGRESS THEN STARTED
                    ELSE UPDATED]_vars

\* updateTask has just changed a task that was and stays InProgress, and
\* recorded Updated
C16_Witness ==
    /\ call.op = "updateTask"
    /\ call.result = "ok"
    /\ Len(history) > 0
    /\ history[1].newValues = call.value
    /\ history[1].oldValues.status = IN_PROGRESS
    /\ call.value.status = IN_PROGRESS
    /\ history[1].action = UPDATED

\* a task's completedAt: <<>> when it has none
CompletedAtOf(task) ==
    IF "completedAt" \in DOMAIN task THEN <<task.completedAt>> ELSE <<>>

\* the ids of the tasks whose completedAt the step sets or changes
CompletedAtWritten ==
    { id \in { tasks'[i].id : i \in 1..Len(tasks') } :
        IF Holds(tasks, id)
        THEN CompletedAtOf(TaskOf(tasks', id)) # CompletedAtOf(TaskOf(tasks, id))
        ELSE CompletedAtOf(TaskOf(tasks', id)) # <<>> }

\* C17 as stated: no operation sets or changes a task's completedAt unless
\* that same operation changes the task's status from a non-Completed value
\* to Completed.
C17_OnlyOnTransition ==
    [][\A id \in CompletedAtWritten :
          /\ Holds(tasks, id)
          /\ TaskOf(tasks, id).status # COMPLETED
          /\ TaskOf(tasks', id).status = COMPLETED]_vars

\* C17, amended: no operation other than completeTask sets or changes a
\* task's completedAt; completeTask sets it to the time of the call and
\* leaves the task Completed, whether or not the task was Completed before.
C17_OnlyCompleteTask ==
    [][\A id \in CompletedAtWritten :
          /\ call'.op = "completeTask"
          /\ call'.result = "ok"
          /\ call'.id = id
          /\ TaskOf(tasks', id).completedAt = now
          /\ TaskOf(tasks', id).status = COMPLETED]_vars

\* a task completed twice has a completedAt that the second completeTask,
\* which changed no status, has rewritten
C17_Witness ==
    /\ call.op = "completeTask"
    /\ call.result = "ok"
    /\ Len(history) > 1
    /\ history[2].action = COMPLETED
    /\ history[2].taskId = call.id
    /\ "completedAt" \in DOMAIN history[2].newValues
    /\ history[1].oldValues = history[2].newValues
    /\ history[1].oldValues.completedAt # call.value.completedAt

\* C24: updateTask(id, dto) on an existing task changes only the members
\* the dto supplies and updatedAt: the task keeps its id and its createdAt,
\* every member the dto does not supply keeps its value, the task keeps its
\* position in the collection, and every other task is unchanged.
C24_UpdateTaskFrame ==
    [][UpdateTaskDone =>
          LET old == TaskOf(tasks, call'.id)
              new == call'.value
              dto == call'.dto
          IN  /\ DOMAIN new = DOMAIN old \cup DOMAIN dto
              /\ new.id = old.id
              /\ new.createdAt = old.createdAt
              /\ \A k \in DOMAIN dto \ {"id", "updatedAt"} : new[k] = dto[k]
              /\ \A k \in DOMAIN old \ (DOMAIN dto \cup {"updatedAt"}) : new[k] = old[k]
              /\ tasks' = setAt(tasks, findIndex(tasks, call'.id), new)]_vars

\* updateTask has just changed the title of the first of two tasks, which
\* keeps its place, its status and its createdAt, at a later time
C24_Witness ==
    /\ call.op = "updateTask"
    /\ call.result = "ok"
    /\ call.dto = [title |-> "b"]
    /\ Len(tasks) = 2
    /\ tasks[1] = call.value
    /\ tasks[1].title = "b"
    /\ tasks[1].status = IN_PROGRESS
    /\ tasks[1].updatedAt > tasks[1].createdAt
    /\ tasks[2].title = "a"

\* C28: in every reachable state, every persisted task whose status is
\* Completed has a completedAt, whether it became Completed through
\* completeTask or through updateTask with status Completed.
C28_CompletedHasCompletedAt ==
    \A i \in 1..Len(tasks) :
        tasks[i].status = COMPLETED => "completedAt" \in DOMAIN tasks[i]

\* C28, the part that holds: a task completeTask has just completed has a
\* completedAt.
C28_CompleteTaskStamps ==
    (call.op = "completeTask" /\ call.result = "ok") =>
        /\ call.value.status = COMPLETED
        /\ "completedAt" \in DOMAIN call.value

\* C28, the case that fails: updateTask has just made a task Completed and
\* the persisted task has no completedAt
C28_UpdatedToCompleted ==
    /\ call.op = "updateTask"
    /\ call.result = "ok"
    /\ call.dto = [status |-> COMPLETED]
    /\ TaskOf(tasks, call.id).status = COMPLETED
    /\ "completedAt" \notin DOMAIN TaskOf(tasks, call.id)

\* the entries about a task id, oldest first
EntriesOf(id) == SelectSeq(log, LAMBDA h : h.taskId = id)

\* the places in a sequence of entries where the action is `action`
PlacesOf(entries, action) == { k \in 1..Len(entries) : entries[k].action = action }

\* C29: in one tab and below the retention cap, the history entries about
\* any one task id, in the order they were appended, begin with a Created
\* entry and hold no other, hold at most one Deleted entry, and hold nothing
\* after it; a task id is in the task collection exactly when its entries
\* hold a Created one and no Deleted one.
C29_TaskLifecycle ==
    Len(log) < MAX_HISTORY =>
    /\ Reverse(history) = log
    /\ \A id \in TaskIds :
          LET entries == EntriesOf(id)
          IN  /\ Len(entries) > 0 => PlacesOf(entries, CREATED) = {1}
              /\ Cardinality(PlacesOf(entries, DELETED)) <= 1
              /\ PlacesOf(entries, DELETED) \subseteq {Len(entries)}
              /\ Holds(tasks, id) <=>
                    /\ PlacesOf(entries, CREATED) # {}
                    /\ PlacesOf(entries, DELETED) = {}

\* a task was created and deleted, and getTaskById on its id after that
\* found nothing, while another task is still held
C29_Witness ==
    /\ \E id \in TaskIds :
          /\ Len(EntriesOf(id)) > 1
          /\ EntriesOf(id)[Len(EntriesOf(id))].action = DELETED
          /\ ~Holds(tasks, id)
          /\ call.op = "getTaskById"
          /\ call.id = id
          /\ call.result = "NotFound"
    /\ Len(tasks) > 0

---------------------------------------------------------------------------
(* Claims about the Category Store, checked under SpecStores.             *)

\* two names are equal up to letter case
SameNameIgnoringCase(a, b) == toLowerCase(a) = toLowerCase(b)
\* C4: no two categories of the persisted collection have names that are
\* equal up to letter case.
C4_NamesUnique ==
    \A i, j \in 1..Len(categories) :
        i # j => ~SameNameIgnoringCase(categories[i].name, categories[j].name)

\* C5: deleteCategory(id) of an existing category fails with the conflict
\* error and leaves the collection unchanged when some task has
\* categoryId = id; otherwise it succeeds and removes that category alone.
C5_DeleteCategoryGuarded ==
    [][ (call'.op = "deleteCategory" /\ Holds(categories, call'.id)) =>
          IF \E i \in 1..Len(tasks) : tasks[i].categoryId = call'.id
          THEN /\ call'.result = "Conflict"
               /\ categories' = categories
          ELSE /\ call'.result = "ok"
               /\ Len(categories') = Len(categories) - 1
               /\ categories' = SelectSeq(categories, LAMBDA c : c.id # call'.id) ]_vars

\* deleteCategory has just been refused for a category a task refers to
C5_Witness ==
    /\ call.op = "deleteCategory"
    /\ call.result = "Conflict"
    /\ Holds(categories, call.id)
    /\ \E i \in 1..Len(tasks) : tasks[i].categoryId = call.id

\* C6: createCategory with a name equal up to letter case to the name of an
\* existing category fails with the conflict error and leaves the collection
\* and the category counter unchanged.
C6_CreateCategoryConflict ==
    [][ ( /\ call'.op = "createCategory"
          /\ \E i \in 1..Len(categories) :
                SameNameIgnoringCase(categories[i].name, call'.name) ) =>
          /\ call'.result = "Conflict"
          /\ categories' = categories
          /\ catCounter' = catCounter ]_vars

\* createCategory has just been refused for a name that differs from an
\* existing one in letter case only
C6_Witness ==
    /\ call.op = "createCategory"
    /\ call.result = "Conflict"
    /\ \A i \in 1..Len(categories) : categories[i].name # call.name
    /\ \E i \in 1..Len(categories) :
          SameNameIgnoringCase(categories[i].name, call.name)

\* the names of the collection are pairwise different, letter case ignored
NamesDistinct(cats) ==
    \A i, j \in 1..Len(cats) :
        i # j => ~SameNameIgnoringCase(cats[i].name, cats[j].name)

\* the collection holds exactly cat-1, cat-2 and cat-3, in this order
IsSeed(cats) ==
    /\ Len(cats) = 3
    /\ \A i \in 1..3 : cats[i].id = i
    /\ NamesDistinct(cats)

\* C14 as stated: constructing the Category Store over an empty collection
\* persists exactly cat-1, cat-2, cat-3 with distinct names and sets the
\* counter to 4; constructing it while a category exists changes neither the
\* collection nor the counter; and the seeding is never repeated once any
\* category has existed.
C14_SeededOnce ==
    [][call'.op = "constructor" =>
          /\ Len(categories) = 0 =>
                IsSeed(categories') /\ catCounter' = Cat_setCounter(SEEDED_COUNTER)
          /\ Len(categories) > 0 =>
                categories' = categories /\ catCounter' = catCounter
          /\ heldCatIds # {} =>
                categories' = categories /\ catCounter' = catCounter]_vars

\* C14, the part that holds: the constructor seeds exactly when the
\* collection it finds is empty, and changes nothing otherwise.
C14_SeededWhenEmpty ==
    [][call'.op = "constructor" =>
          /\ call'.seeded = (Len(categories) = 0)
          /\ Len(categories) = 0 =>
                IsSeed(categories') /\ catCounter' = Cat_setCounter(SEEDED_COUNTER)
          /\ Len(categories) > 0 =>
                categories' = categories /\ catCounter' = catCounter]_vars

\* the constructor has just seeded a store that had held a created category
C14_Reseeded ==
    /\ call.op = "constructor"
    /\ call.seeded
    /\ SEEDED_COUNTER \in heldCatIds

\* C18: category ids are unique and monotonically increasing across any
\* sequence of operations, deletions of categories and re-constructions of
\* the store included: every successful createCategory returns an id
\* greater than every id the collection has ever held, and the persisted
\* category counter never decreases.
C18_CategoryIdsMonotonic ==
    [][/\ Cat_getCounter(catCounter') >= Cat_getCounter(catCounter)
       /\ \A i, j \in 1..Len(categories') :
             i # j => categories'[i].id # categories'[j].id
       /\ (call'.op = "createCategory" /\ call'.result = "ok") =>
             \A id \in heldCatIds : call'.value.id > id]_vars

\* updateCategory has just been called on a category the collection holds
UpdateCategoryCalled == call'.op = "updateCategory" /\ Holds(categories, call'.id)

\* what updateCategory does when it finds no conflict: the call succeeds and
\* the category, with its id, is written back at its place
UpdateCategoryWritten ==
    /\ call'.result = "ok"
    /\ call'.value.id = call'.id
    /\ \A k \in DOMAIN call'.dto \ {"id"} : call'.value[k] = call'.dto[k]
    /\ categories' = setAt(categories, findIndex(categories, call'.id), call'.value)

\* C25: updateCategory(id, dto) fails with the conflict error and leaves the
\* collection unchanged whenever dto.name is supplied and equals, letter
\* case ignored, the name of a different existing category; a dto.name that
\* collides with the category's own name alone succeeds; the update keeps
\* the category's id and position.
C25_UpdateCategoryConflict ==
    [][UpdateCategoryCalled =>
          IF /\ "name" \in DOMAIN call'.dto
             /\ \E i \in 1..Len(categories) :
                   /\ categories[i].id # call'.id
                   /\ SameNameIgnoringCase(categories[i].name, call'.dto.name)
          THEN call'.result = "Conflict" /\ categories' = categories
          ELSE UpdateCategoryWritten]_vars

\* C25, the part that holds: the same for every supplied name but ''.
C25_ConflictOnNonEmptyNames ==
    [][(UpdateCategoryCalled /\
          ("name" \in DOMAIN call'.dto => call'.dto.name # <<>>)) =>
          IF /\ "name" \in DOMAIN call'.dto
             /\ \E i \in 1..Len(categories) :
                   /\ categories[i].id # call'.id
                   /\ SameNameIgnoringCase(categories[i].name, call'.dto.name)
          THEN call'.result = "Conflict" /\ categories' = categories
          ELSE UpdateCategoryWritten]_vars

\* updateCategory has just changed the letter case of a category's own name
C25_OwnNameRecased ==
    /\ call.op = "updateCategory"
    /\ call.result = "ok"
    /\ "name" \in DOMAIN call.dto
    /\ call.value.name = call.dto.name
    /\ \E i \in 1..Len(defaults(0)) :
          /\ defaults(0)[i].id = call.id
          /\ defaults(0)[i].name # call.dto.name
          /\ SameNameIgnoringCase(defaults(0)[i].name, call.dto.name)

\* C25, the case that fails: updateCategory has just given a category the
\* name '' that another category already has
C25_EmptyNameTwice ==
    /\ call.op = "updateCategory"
    /\ call.result = "ok"
    /\ "name" \in DOMAIN call.dto
    /\ call.dto.name = <<>>
    /\ \E i \in 1..Len(categories) :
          categories[i].id # call.id /\ categories[i].name = <<>>

\* C15: getCategories returns and persists, for every category, a
\* taskCount equal to the number of persisted tasks whose categoryId is that
\* category's id; no other member of any category changes, and neither do
\* the categories present nor their order.
C15_GetCategoriesRecounts ==
    [][call'.op = "getCategories" =>
          /\ call'.value = categories'
          /\ Len(categories') = Len(categories)
          /\ \A i \in 1..Len(categories) :
                /\ categories'[i].taskCount =
                      Cardinality({ k \in 1..Len(tasks) :
                                      tasks[k].categoryId = categories[i].id })
                /\ DOMAIN categories'[i] = DOMAIN categories[i]
                /\ \A m \in DOMAIN categories[i] \ {"taskCount"} :
                      categories'[i][m] = categories[i][m]
          /\ tasks' = tasks]_vars

\* getCategories has just answered counts of which one is positive and one,
\* of a category that comes earlier or later in the collection, is zero
C15_Witness ==
    /\ call.op = "getCategories"
    /\ call.value = categories
    /\ \E i, j \in 1..Len(categories) :
          /\ categories[i].taskCount > 0
          /\ categories[j].taskCount = 0
          /\ hasTask(tasks, categories[i].id)

\* C21: getCategoryById(id) returns a category whose taskCount is the
\* number of tasks now in the task collection with categoryId = id, after
\* any sequence of task creations, updates and deletions.
C21_GetCategoryByIdRecounts ==
    [][(call'.op = "getCategoryById" /\ call'.result = "ok") =>
          call'.value.taskCount =
             Cardinality({ k \in 1..Len(tasks) : tasks[k].categoryId = call'.id })]_vars

\* C21, the case that fails: getCategoryById has just answered a taskCount
\* of 0 for a category a task is in
C21_StaleCount ==
    /\ call.op = "getCategoryById"
    /\ call.result = "ok"
    /\ call.value.taskCount = 0
    /\ hasTask(tasks, call.id)

TaskIdCalls == {"getTaskById", "updateTask", "deleteTask", "completeTask"}
CategoryIdCalls == {"getCategoryById", "updateCategory", "deleteCategory"}

\* C10: getTaskById, updateTask, deleteTask, completeTask, getCategoryById,
\* updateCategory and deleteCategory called with an id their collection does
\* not hold fail with the not-found error and leave both collections, the
\* history and the three counters unchanged.
C10_NotFoundChangesNothing ==
    [][ ( \/ call'.op \in TaskIdCalls /\ ~Holds(tasks, call'.id)
          \/ call'.op \in CategoryIdCalls /\ ~Holds(categories, call'.id) ) =>
          /\ call'.result = "NotFound"
          /\ storage' = storage ]_vars

\* completeTask and deleteCategory have been refused for unknown ids while
\* both collections hold records
C10_Witness ==
    /\ call.op \in {"completeTask", "deleteCategory"}
    /\ call.result = "NotFound"
    /\ Len(tasks) > 0
    /\ Len(categories) > 0
    /\ Len(history) > 0

---------------------------------------------------------------------------
(* Claims about failing history writes, checked under SpecFail.           *)

\* the step ran a Task Store mutation whose history entry was not persisted
HistoryWriteFailed ==
    /\ call'.op \in TaskMutations
    /\ Holds(tasks, call'.id) \/ call'.op = "createTask"
    /\ history' = history

\* the step persisted the change of the task collection its call asks for
\* (the dto of updateTask under SpecFail sets categoryId to 2)
MutationPersisted ==
    CASE call'.op = "createTask" ->
            ~Holds(tasks, call'.id) /\ Holds(tasks', call'.id)
      [] call'.op = "deleteTask" ->
            Holds(tasks, call'.id) /\ ~Holds(tasks', call'.id)
      [] call'.op = "completeTask" ->
            /\ Holds(tasks', call'.id)
            /\ getTaskById(tasks', call'.id).value.status = COMPLETED
      [] OTHER ->
            /\ Holds(tasks', call'.id)
            /\ getTaskById(tasks', call'.id).value.categoryId = 2

\* C3: when storage rejects a write of addHistoryEntry during createTask,
\* updateTask, deleteTask or completeTask, the operation still reports
\* success to its caller, and its change of the task collection is persisted.
C3_LoggingFailureNotPropagated ==
    [][ HistoryWriteFailed => call'.result = "ok" /\ MutationPersisted ]_vars

\* the part of C3 the code keeps: the change of the task collection is
\* persisted although the call throws
C3_MutationStaysPersisted ==
    [][ HistoryWriteFailed => call'.result = "Throw" /\ MutationPersisted ]_vars

---------------------------------------------------------------------------
(* Claims about the retention cap, checked under SpecCap.                 *)

\* the first n elements of a sequence, or all of it when it is shorter
FirstN(seq, n) == SubSeq(seq, 1, IF Len(seq) < n THEN Len(seq) ELSE n)

\* C23: history entries are immutable.  Whatever a step appends, every
\* entry that was persisted before it and is still within the MAX_HISTORY
\* most recent ones is persisted after it, member for member as it was and
\* in the same relative order; an entry leaves the history only by falling
\* behind those MAX_HISTORY.  No operation of the Task Store, deleteTask of
\* the task the entry concerns included, removes or alters an entry.
C23_EntriesImmutable ==
    [][LET appended == Len(log') - Len(log)
       IN  /\ appended \in {0, 1}
           /\ Len(history') >= appended
           /\ history' = FirstN(SubSeq(history', 1, appended) \o history, MAX_HISTORY)]_vars

\* deleteTask has just deleted a task whose earlier entries the history
\* still holds, in a history that has evicted entries
C23_Witness ==
    /\ call.op = "deleteTask"
    /\ call.result = "ok"
    /\ Len(log) > MAX_HISTORY
    /\ Len(history) = MAX_HISTORY
    /\ history[1].action = DELETED
    /\ history[1].taskId = call.id
    /\ \E i \in 2..Len(history) : history[i].taskId = call.id

\* C7: the persisted history never holds more than 1000 entries, and it is
\* the 1000 most recently appended entries (all of them while fewer were
\* appended), most recent first.
C7_HistoryCapped ==
    /\ Len(history) <= MAX_HISTORY
    /\ history = FirstN(Reverse(log), MAX_HISTORY)

\* more entries were appended than the cap retains
C7_Witness ==
    /\ Len(log) > MAX_HISTORY + 1
    /\ Len(history) = MAX_HISTORY
    /\ history[MAX_HISTORY] = log[Len(log) + 1 - MAX_HISTORY]

\* C30: in every state reachable in one tab from empty storage, the ids of
\* the persisted history entries are pairwise different, their numbers
\* strictly decrease from the front of the list to the back, the persisted
\* history counter is greater than each of them, and the id of an entry the
\* cap evicted is never issued again.
\* (Each entry is compared with its neighbour: numbers that decrease from
\* each place to the next decrease between any two places and are pairwise
\* different.  log holds every entry ever issued, the evicted ones too.)
C30_HistoryIdsDecrease ==
    /\ \A i \in 1..(Len(history) - 1) : history[i].id > history[i + 1].id
    /\ \A i \in 1..Len(history) : Hist_getCounter(histCounter) > history[i].id
    /\ \A i \in 1..(Len(log) - 1) : log[i].id < log[i + 1].id
    /\ \A i \in 1..Len(log) : Hist_getCounter(histCounter) > log[i].id

\* entries were evicted and a call has just appended one more
C30_Witness ==
    /\ Len(log) > MAX_HISTORY + 1
    /\ Len(history) = MAX_HISTORY
    /\ call.op \in TaskMutations
    /\ call.result = "ok"
    /\ history[1] = log[Len(log)]
    /\ \A i \in 1..(Len(log) - MAX_HISTORY) : log[i].id < history[MAX_HISTORY].id

---------------------------------------------------------------------------
(* Claims about the queries of the History Log, checked under SpecQuery.  *)

\* C22: for every history content and every taskId value, the empty string
\* included, getTaskHistory(taskId) returns exactly the list
\* getHistory({taskId}) returns.
C22_TaskHistoryIsFilteredHistory ==
    [][call'.op = "getTaskHistory" =>
          call'.value = getHistory(history, [taskId |-> call'.id])]_vars

\* C22, the part that holds: the two agree for every taskId but ''.
C22_AgreeOnNonEmptyIds ==
    [][(call'.op = "getTaskHistory" /\ call'.id # EMPTY_STRING) =>
          call'.value = getHistory(history, [taskId |-> call'.id])]_vars

\* C22, the case that fails: over a history that is not empty,
\* getHistory({taskId: ''}) has just returned every entry, where
\* getTaskHistory('') returns none
C22_EmptyIdDiffers ==
    /\ call.op = "getHistory"
    /\ call.filter = [taskId |-> EMPTY_STRING]
    /\ call.value = history
    /\ Len(history) > 0
    /\ getTaskHistory(history, EMPTY_STRING) = <<>>

\* the entry satisfies every member the filter supplies
Satisfies(h, filter) ==
    /\ "taskId" \in DOMAIN filter => h.taskId = filter.taskId
    /\ "action" \in DOMAIN filter => h.action = filter.action
    /\ "dateFrom" \in DOMAIN filter => h.timestamp >= filter.dateFrom
    /\ "dateTo" \in DOMAIN filter => h.timestamp <= filter.dateTo

\* C26: getHistory(filter) returns exactly the entries of the persisted
\* history that satisfy every supplied filter member at once (taskId equal,
\* action equal, timestamp >= dateFrom, timestamp <= dateTo, both bounds
\* inclusive), in their stored order; with no filter it returns the whole
\* history.
C26_GetHistoryFilters ==
    [][call'.op = "getHistory" =>
          call'.value = SelectSeq(history, LAMBDA h : Satisfies(h, call'.filter))]_vars

\* C26, the part that holds: the same for every filter whose taskId, if
\* supplied, is not ''.
C26_GetHistoryFiltersNonEmptyId ==
    [][(call'.op = "getHistory" /\
          ("taskId" \in DOMAIN call'.filter => call'.filter.taskId # EMPTY_STRING)) =>
          call'.value = SelectSeq(history, LAMBDA h : Satisfies(h, call'.filter))]_vars

\* C26, the case that fails: a filter that supplies '' as taskId beside an
\* action has just returned entries, none of which has that taskId
C26_EmptyIdIgnored ==
    /\ call.op = "getHistory"
    /\ DOMAIN call.filter = {"taskId", "action"}
    /\ call.filter.taskId = EMPTY_STRING
    /\ Len(call.value) > 0
    /\ \A k \in 1..Len(call.value) : call.value[k].taskId # EMPTY_STRING

---------------------------------------------------------------------------
(* Claims about two tabs, checked under SpecTabs.                         *)

\* the tab's createTask has returned
Returned(tab) == tabs[tab].pc = "done"

\* C19: two createTask calls made from two tabs, interleaved storage call by
\* storage call (collection read, counter read, counter write, collection
\* write), raise no error and detect nothing: each call takes as id the
\* counter it read, writes back the collection it read plus its own task
\* over whatever the other tab has written since, and returns success.  So
\* a state is reachable (C19_Witness) in which both calls have returned
\* success, the collection holds only one of the two tasks, and the two
\* returned tasks carry the same id.
C19_LastWriterWinsSilently ==
    [][\A tab \in Tabs :
          /\ (At(tab, "saveTasks") /\ tabs'[tab].pc # "saveTasks") =>
                /\ tasks' = Append(tabs[tab].tasks, tabs[tab].newTask)
                /\ tabs[tab].newTask.id = tabs[tab].counter
          /\ (~Returned(tab) /\ tabs'[tab].pc = "done") =>
                /\ tabs'[tab].result = "ok"
                /\ tabs'[tab].value = tabs[tab].newTask
                /\ call'.result = "ok"]_vars

\* both calls have returned success with different tasks of the same id,
\* and the collection holds the task of tab B alone
C19_Witness ==
    /\ \A tab \in Tabs : Returned(tab) /\ tabs[tab].result = "ok"
    /\ tabs["A"].value.id = tabs["B"].value.id
    /\ tabs["A"].value # tabs["B"].value
    /\ tasks = <<tabs["B"].value>>

---------------------------------------------------------------------------
(* Claims about damaged counters, checked under SpecCorrupt.              *)

\* an allocation from counter item `item` answered id `id` and left `left`
\* in storage as if the counter had been 1
AsFromOne(start, id, left) == id = start /\ left = <<start + 1>>

\* C20: when a persisted counter is missing or corrupt (non-numeric), the
\* next id allocation treats it as 1: it returns the id with number 1,
\* persists the counter as 2, and does not throw.
C20_CounterTreatedAsOne ==
    [][/\ (call'.op = "createTask" /\ taskCounter \in {<<>>, <<NaN>>}) =>
             /\ call'.result = "ok"
             /\ AsFromOne(TASK_COUNTER_START, call'.value.id, taskCounter')
       /\ (Len(log') = Len(log) + 1 /\ histCounter \in {<<>>, <<NaN>>}) =>
             AsFromOne(HISTORY_COUNTER_START, log'[Len(log')].id, histCounter')
       /\ (call'.op = "createCategory" /\ call'.result = "ok"
              /\ catCounter \in {<<>>, <<NaN>>}) =>
             AsFromOne(CATEGORY_COUNTER_START, call'.value.id, catCounter')]_vars

\* C20, the part that holds: a missing counter is treated as 1.
C20_MissingCounterTreatedAsOne ==
    [][/\ (call'.op = "createTask" /\ taskCounter = <<>>) =>
             /\ call'.result = "ok"
             /\ AsFromOne(TASK_COUNTER_START, call'.value.id, taskCounter')
       /\ (Len(log') = Len(log) + 1 /\ histCounter = <<>>) =>
             AsFromOne(HISTORY_COUNTER_START, log'[Len(log')].id, histCounter')
       /\ (call'.op = "createCategory" /\ call'.result = "ok" /\ catCounter = <<>>) =>
             AsFromOne(CATEGORY_COUNTER_START, call'.value.id, catCounter')]_vars

\* C20, the case that fails: two tasks were created from a corrupt counter,
\* both are "task-NaN", and the counter is still unreadable
C20_NaNIds ==
    /\ call.op = "createTask"
    /\ call.result = "ok"
    /\ call.value.id = NaN
    /\ taskCounter = <<NaN>>
    /\ Len(tasks) > 1
    /\ \A i \in 1..Len(tasks) : tasks[i].id = NaN

---------------------------------------------------------------------------
(* Claims about the read operations, checked under SpecReads.             *)

\* the read operations other than getCategories
PureReads ==
    {"getTasks", "getTaskById", "getTasksByCategory", "getTasksByStatus", "searchTasks",
     "getCategoryById", "getHistory", "getTaskHistory", "getRecentHistory"}

\* a category with its taskCount left out
WithoutTaskCount(category) ==
    [k \in DOMAIN category \ {"taskCount"} |-> category[k]]

\* C27: getCategories is the only read operation that writes.  getTasks,
\* getTaskById, getTasksByCategory, getTasksByStatus, searchTasks,
\* getCategoryById, getHistory, getTaskHistory and getRecentHistory leave
\* every storage key as it was; getCategories changes nothing but the
\* taskCount members of the category collection: the task collection, the
\* history and the three counters are unchanged.
C27_OnlyGetCategoriesWrites ==
    [][/\ call'.op \in PureReads => storage' = storage
       /\ call'.op = "getCategories" =>
             /\ <<tasks', taskCounter', catCounter', history', histCounter'>> =
                   <<tasks, taskCounter, catCounter, history, histCounter>>
             /\ Len(categories') = Len(categories)
             /\ \A i \in 1..Len(categories) :
                   /\ "taskCount" \in DOMAIN categories'[i]
                   /\ WithoutTaskCount(categories'[i]) = WithoutTaskCount(categories[i])]_vars

\* getCategories has just written a taskCount that was not in storage
\* before: the category collection was last written by the seeding
C27_Witness ==
    /\ call.op = "getCategories"
    /\ categories # defaults(0)
    /\ [i \in 1..Len(categories) |-> WithoutTaskCount(categories[i])] =
          [i \in 1..Len(defaults(0)) |-> WithoutTaskCount(defaults(0)[i])]
    /\ Len(tasks) > 0
    /\ Len(history) > 0

=============================================================================
